---------------------------- MODULE Spec2Model ----------------------------
(***************************************************************************)
(* Form field controllers and the Span view of package view (go-start).   *)
(*                                                                         *)
(* The state is one model field (its reflected descriptor MetaData with    *)
(* the value it points at), the Form that supplies the presentation        *)
(* policy, a controller list, the multipart upload stream of the current   *)
(* request, a Span view with the response it renders to, and the record    *)
(* of the last call with what it returned.                                 *)
(***************************************************************************)
EXTENDS Integers, Sequences, FiniteSets, TLC

VARIABLES
    ctrls,      \* the FormFieldControllers list the list operations are called on
    meta,       \* *model.MetaData: the field descriptor and the model value behind it
    form,       \* *Form: presentation policy, read only
    call,       \* the last call: operation, arguments and what it returned
    invoked,    \* the controller methods the last list operation invoked, in order
    stream,     \* the multipart.File handed out by Request.FormFile in the last call
    span,       \* the *Span that is rendered
    response    \* Response.XML: the tokens written so far

vars == <<ctrls, meta, form, call, invoked, stream, span, response>>

---------------------------------------------------------------------------
(* Bounds of the model *)

MaxControllers == 2     \* longest controller list
MaxSize == 3            \* largest input size the Form answers
MaxNum == 3             \* largest number a tag attribute or an Int value holds
MaxOptions == 2         \* longest option list of a choice field
MaxData == 2            \* longest upload payload, in bytes
MaxDepth == 2           \* deepest nesting of Span views

---------------------------------------------------------------------------
(* Values shared by the controllers *)

Nil == [view |-> "nil"]
NoErr == [kind |-> "nil"]

\* ErrFormFieldTypeNotSupported{metaData}
ErrFormFieldTypeNotSupported(metaData) ==
    [kind |-> "ErrFormFieldTypeNotSupported", MetaData |-> metaData]

\* A call that returns, and a call that panics (a failed type assertion, or
\* the explicit panic of ModelTextController.NewInput).
Return(input, err) == [outcome |-> "return", input |-> input, err |-> err]
Panic == [outcome |-> "panic", input |-> Nil, err |-> NoErr]

SupportedTypes ==
    {"String", "Text", "Url", "Email", "Password", "Phone", "Bool", "Choice",
     "MultipleChoice", "DynamicChoice", "Date", "DateTime", "Float", "Int",
     "File", "Blob"}

\* Model types of the framework that no controller of this file is written for.
OtherTypes == {"Color", "GeoLocation"}

FieldTypes == SupportedTypes \cup OtherTypes

Controllers ==
    {"ModelStringController", "ModelTextController", "ModelUrlController",
     "ModelEmailController", "ModelPasswordController", "ModelPhoneController",
     "ModelBoolController", "ModelChoiceController",
     "ModelMultipleChoiceController", "ModelDynamicChoiceController",
     "ModelDateController", "ModelDateTimeController", "ModelFloatController",
     "ModelIntController", "ModelFileController", "ModelBlobController"}

\* metaData.Selector(): the key of the field in the submitted form.
Selector(metaData) == metaData.selector

\* metaData.Attrib(StructTagKey, key): the tag attribute and whether it is there.
Attrib(metaData, key) ==
    IF key \in DOMAIN metaData.attribs
    THEN [str |-> metaData.attribs[key], ok |-> TRUE]
    ELSE [str |-> "", ok |-> FALSE]

\* strconv.Atoi on the strings of the model: a decimal numeral parses to its
\* number, anything else is an error.
Atoi(str) ==
    IF \E n \in 0..MaxNum : ToString(n) = str
    THEN [n |-> CHOOSE n \in 0..MaxNum : ToString(n) = str, ok |-> TRUE]
    ELSE [n |-> 0, ok |-> FALSE]

\* strconv.Itoa / Int.String().
Itoa(n) == ToString(n)

\* String.Maxlen(metaData) and Password.Maxlen(metaData): the "maxlen" tag
\* attribute as a number; ok only when it is declared and numeric.
Maxlen(metaData) ==
    LET a == Attrib(metaData, "maxlen")
        p == Atoi(a.str)
    IN  IF a.ok /\ p.ok THEN [maxlen |-> p.n, ok |-> TRUE]
        ELSE [maxlen |-> 0, ok |-> FALSE]

\* ctx.Request.FormValue(key): the first value of key, "" when key is absent.
FormValue(req, key) ==
    IF key \in DOMAIN req.form THEN req.form[key] ELSE ""

\* AddStandardLabel(form, input, metaData): the input with its label.
AddStandardLabel(f, input, metaData) ==
    [view |-> "Labeled", Label |-> f.label, Input |-> input]


\* Form's answers for a field: each reads the Form and changes nothing.
FieldInputClass(f, metaData) == f.class
GetInputSize(f, metaData) == f.size
IsFieldDisabled(f, metaData) == f.disabled
InputFieldPlaceholder(f, metaData) == f.placeholder
FieldLabel(f, metaData) == f.label

\* The views the controllers build. A field the Go literal leaves out has its
\* zero value: Type NormalTextField, Size 0, MaxLength 0, Label "".
TextField(class, name, type, text, size, disabled, placeholder) ==
    [view |-> "TextField", Class |-> class, Name |-> name, Type |-> type,
     Text |-> text, Size |-> size, MaxLength |-> 0, Disabled |-> disabled,
     Placeholder |-> placeholder]

TextArea(class, name, text, cols, rows, disabled, placeholder) ==
    [view |-> "TextArea", Class |-> class, Name |-> name, Text |-> text,
     Cols |-> cols, Rows |-> rows, Disabled |-> disabled,
     Placeholder |-> placeholder]

Checkbox(label, class, name, disabled, checked) ==
    [view |-> "Checkbox", Label |-> label, Class |-> class, Name |-> name,
     Disabled |-> disabled, Checked |-> checked]

Select(class, name, model, disabled) ==
    [view |-> "Select", Class |-> class, Name |-> name, Model |-> model,
     Disabled |-> disabled, Size |-> 1]

FileInput(class, name, disabled) ==
    [view |-> "FileInput", Class |-> class, Name |-> name, Disabled |-> disabled]

HTML(text) == [view |-> "HTML", html |-> text]

Views(list) == [view |-> "Views", views |-> list]

\* model.DateFormat and model.DateTimeFormat.
DateFormat == "2006-01-02"
DateTimeFormat == "2006-01-02 15:04:05"

\* What SetValue hands back: how it ended, its error, the field as it left
\* it, and the upload stream as it left it.
NoStream == [opened |-> FALSE, closed |-> 0]
SetReturn(err, metaData, s) ==
    [outcome |-> "return", err |-> err, meta |-> metaData, stream |-> s]
SetPanic(metaData) ==
    [outcome |-> "panic", err |-> NoErr, meta |-> metaData, stream |-> NoStream]

\* model.Value.SetString of each model type, on the strings of the model.
SetString(metaData, str) ==
    CASE metaData.type \in {"Int", "Float"} ->
            IF Atoi(str).ok THEN [metaData EXCEPT !.value = Atoi(str).n]
            ELSE metaData
      [] metaData.type = "Bool" ->
            [metaData EXCEPT !.value = (str = "true")]
      [] metaData.type = "DynamicChoice" ->
            IF \E i \in 1..Len(metaData.value.options) : metaData.value.options[i] = str
            THEN [metaData EXCEPT !.value.index =
                    (CHOOSE i \in 1..Len(metaData.value.options) :
                        metaData.value.options[i] = str) - 1]
            ELSE metaData
      [] metaData.type \in {"MultipleChoice", "File", "Blob"} -> metaData
      [] OTHER -> [metaData EXCEPT !.value = str]

---------------------------------------------------------------------------
(* modelValueControllerBase *)

modelValueControllerBase_SetValue(req, metaData, f) ==
    SetReturn(NoErr, SetString(metaData, FormValue(req, Selector(metaData))), NoStream)

---------------------------------------------------------------------------
(* ModelStringController *)

ModelStringController_Supports(metaData, f) == metaData.type = "String"

\* The max length stored, the size left as requested.
ModelStringController_NewInput_NoClamp(withLabel, metaData, f) ==
    IF metaData.type # "String" THEN Panic
    ELSE LET textField == TextField(FieldInputClass(f, metaData), Selector(metaData),
                                    "NormalTextField", metaData.value,
                                    GetInputSize(f, metaData),
                                    IsFieldDisabled(f, metaData),
                                    InputFieldPlaceholder(f, metaData))
             m == Maxlen(metaData)
             stored == IF m.ok THEN [textField EXCEPT !.MaxLength = m.maxlen]
                       ELSE textField
         IN  IF withLabel
             THEN Return(AddStandardLabel(f, stored, metaData), NoErr)
             ELSE Return(stored, NoErr)

ModelStringController_NewInput(withLabel, metaData, f) ==
    IF metaData.type # "String" THEN Panic
    ELSE LET textField == TextField(FieldInputClass(f, metaData), Selector(metaData),
                                    "NormalTextField", metaData.value,
                                    GetInputSize(f, metaData),
                                    IsFieldDisabled(f, metaData),
                                    InputFieldPlaceholder(f, metaData))
             m == Maxlen(metaData)
             clamped == IF m.ok
                        THEN [textField EXCEPT
                                !.MaxLength = m.maxlen,
                                !.Size = IF m.maxlen < textField.Size
                                         THEN m.maxlen ELSE textField.Size]
                        ELSE textField
         IN  IF withLabel
             THEN Return(AddStandardLabel(f, clamped, metaData), NoErr)
             ELSE Return(clamped, NoErr)

---------------------------------------------------------------------------
(* ModelTextController *)

ModelTextController_Supports(metaData, f) == metaData.type = "Text"

ModelTextController_NewInput(withLabel, metaData, f) ==
    IF metaData.type # "Text" THEN Panic
    ELSE LET c == Attrib(metaData, "cols")
             r == Attrib(metaData, "rows")
         IN  IF c.ok /\ ~Atoi(c.str).ok THEN Panic
             ELSE IF r.ok /\ ~Atoi(r.str).ok THEN Panic
             ELSE LET cols == IF c.ok THEN Atoi(c.str).n ELSE 0
                      rows == IF r.ok THEN Atoi(r.str).n ELSE 0
                      input == TextArea(FieldInputClass(f, metaData),
                                        Selector(metaData), metaData.value,
                                        cols, rows, IsFieldDisabled(f, metaData),
                                        InputFieldPlaceholder(f, metaData))
                  IN  IF withLabel
                      THEN Return(AddStandardLabel(f, input, metaData), NoErr)
                      ELSE Return(input, NoErr)

---------------------------------------------------------------------------
(* ModelUrlController *)

\* The type test copied from ModelStringController and left as it was.
ModelUrlController_Supports_String(metaData, f) == metaData.type = "String"

ModelUrlController_Supports(metaData, f) == metaData.type = "Url"

ModelUrlController_NewInput(withLabel, metaData, f) ==
    IF metaData.type # "Url" THEN Panic
    ELSE LET input == TextField(FieldInputClass(f, metaData), Selector(metaData),
                                "NormalTextField", metaData.value,
                                GetInputSize(f, metaData),
                                IsFieldDisabled(f, metaData),
                                InputFieldPlaceholder(f, metaData))
         IN  IF withLabel
             THEN Return(AddStandardLabel(f, input, metaData), NoErr)
             ELSE Return(input, NoErr)

---------------------------------------------------------------------------
(* ModelEmailController *)

ModelEmailController_Supports(metaData, f) == metaData.type = "Email"

ModelEmailController_NewInput(withLabel, metaData, f) ==
    IF metaData.type # "Email" THEN Panic
    ELSE LET input == TextField(FieldInputClass(f, metaData), Selector(metaData),
                                "EmailTextField", metaData.value,
                                GetInputSize(f, metaData),
                                IsFieldDisabled(f, metaData),
                                InputFieldPlaceholder(f, metaData))
         IN  IF withLabel
             THEN Return(AddStandardLabel(f, input, metaData), NoErr)
             ELSE Return(input, NoErr)

---------------------------------------------------------------------------
(* ModelPasswordController *)

ModelPasswordController_Supports(metaData, f) == metaData.type = "Password"

ModelPasswordController_NewInput(withLabel, metaData, f) ==
    IF metaData.type # "Password" THEN Panic
    ELSE LET textField == TextField(FieldInputClass(f, metaData), Selector(metaData),
                                    "PasswordTextField", metaData.value,
                                    GetInputSize(f, metaData),
                                    IsFieldDisabled(f, metaData),
                                    InputFieldPlaceholder(f, metaData))
             m == Maxlen(metaData)
             clamped == IF m.ok
                        THEN [textField EXCEPT
                                !.MaxLength = m.maxlen,
                                !.Size = IF m.maxlen < textField.Size
                                         THEN m.maxlen ELSE textField.Size]
                        ELSE textField
         IN  IF withLabel
             THEN Return(AddStandardLabel(f, clamped, metaData), NoErr)
             ELSE Return(clamped, NoErr)

---------------------------------------------------------------------------
(* ModelPhoneController *)

ModelPhoneController_Supports(metaData, f) == metaData.type = "Phone"

ModelPhoneController_NewInput(withLabel, metaData, f) ==
    IF metaData.type # "Phone" THEN Panic
    ELSE LET input == TextField(FieldInputClass(f, metaData), Selector(metaData),
                                "NormalTextField", metaData.value,
                                GetInputSize(f, metaData),
                                IsFieldDisabled(f, metaData),
                                InputFieldPlaceholder(f, metaData))
         IN  IF withLabel
             THEN Return(AddStandardLabel(f, input, metaData), NoErr)
             ELSE Return(input, NoErr)

---------------------------------------------------------------------------
(* ModelBoolController *)

ModelBoolController_Supports(metaData, f) == metaData.type = "Bool"

ModelBoolController_NewInput(withLabel, metaData, f) ==
    IF metaData.type # "Bool" THEN Panic
    ELSE LET checkbox == Checkbox("", FieldInputClass(f, metaData),
                                  Selector(metaData), IsFieldDisabled(f, metaData),
                                  metaData.value)
         IN  IF withLabel
             THEN Return([checkbox EXCEPT !.Label = FieldLabel(f, metaData)], NoErr)
             ELSE Return(checkbox, NoErr)

\* The submitted value parsed as a boolean literal.
ModelBoolController_SetValue_Parsed(req, metaData, f) ==
    IF metaData.type # "Bool" THEN SetPanic(metaData)
    ELSE SetReturn(NoErr,
                   [metaData EXCEPT !.value = (FormValue(req, Selector(metaData)) = "true")],
                   NoStream)

ModelBoolController_SetValue(req, metaData, f) ==
    IF metaData.type # "Bool" THEN SetPanic(metaData)
    ELSE SetReturn(NoErr,
                   [metaData EXCEPT !.value = (FormValue(req, Selector(metaData)) # "")],
                   NoStream)

---------------------------------------------------------------------------
(* ModelChoiceController *)

\* choice.Options(metaData) and m.Options(metaData): the options the field declares.
Options(metaData) == metaData.options

\* The options with the empty option first:
\* if len(options) == 0 || options[0] != "" { options = append([]string{""}, options...) }
NeedsEmptyOption(options) == Len(options) = 0 \/ options[1] # ""

ModelChoiceController_Supports(metaData, f) == metaData.type = "Choice"

ModelChoiceController_NewInput(withLabel, metaData, f) ==
    IF metaData.type # "Choice" THEN Panic
    ELSE LET declared == Options(metaData)
             options == IF NeedsEmptyOption(declared)
                        THEN <<"">> \o declared ELSE declared
             input == Select(FieldInputClass(f, metaData), Selector(metaData),
                             [model |-> "StringsSelectModel", Options |-> options,
                              SelectedOption |-> metaData.value],
                             IsFieldDisabled(f, metaData))
         IN  IF withLabel
             THEN Return(AddStandardLabel(f, input, metaData), NoErr)
             ELSE Return(input, NoErr)

---------------------------------------------------------------------------
(* ModelMultipleChoiceController *)

\* fmt.Sprintf("%s_%d", metaData.Selector(), i), i counted from 0.
BoxName(metaData, i) == Selector(metaData) \o "_" \o ToString(i)

\* m.IsSet(option)
IsSet(metaData, option) ==
    \E k \in 1..Len(metaData.value) : metaData.value[k] = option

ModelMultipleChoiceController_Supports(metaData, f) == metaData.type = "MultipleChoice"

ModelMultipleChoiceController_NewInput(withLabel, metaData, f) ==
    IF metaData.type # "MultipleChoice" THEN Panic
    ELSE LET options == Options(metaData)
             checkboxes == Views([i \in 1..Len(options) |->
                                Checkbox(options[i], FieldInputClass(f, metaData),
                                         BoxName(metaData, i - 1),
                                         IsFieldDisabled(f, metaData),
                                         IsSet(metaData, options[i]))])
         IN  IF withLabel
             THEN Return(AddStandardLabel(f, checkboxes, metaData), NoErr)
             ELSE Return(checkboxes, NoErr)

\* *m = nil, then the loop over the options; m is the selection so far and i
\* the 1-based position of the option the loop is at.
RECURSIVE AppendChecked(_, _, _, _, _)
AppendChecked(m, options, i, req, metaData) ==
    IF i > Len(options) THEN m
    ELSE AppendChecked(IF FormValue(req, BoxName(metaData, i - 1)) # ""
                       THEN Append(m, options[i]) ELSE m,
                       options, i + 1, req, metaData)

\* Without "*m = nil": the checked options are appended to the old selection.
ModelMultipleChoiceController_SetValue_NoReset(req, metaData, f) ==
    IF metaData.type # "MultipleChoice" THEN SetPanic(metaData)
    ELSE SetReturn(NoErr,
                   [metaData EXCEPT !.value =
                        AppendChecked(metaData.value, Options(metaData), 1, req, metaData)],
                   NoStream)

ModelMultipleChoiceController_SetValue(req, metaData, f) ==
    IF metaData.type # "MultipleChoice" THEN SetPanic(metaData)
    ELSE SetReturn(NoErr,
                   [metaData EXCEPT !.value =
                        AppendChecked(<<>>, Options(metaData), 1, req, metaData)],
                   NoStream)

---------------------------------------------------------------------------
(* ModelDynamicChoiceController *)

ModelDynamicChoiceController_Supports(metaData, f) == metaData.type = "DynamicChoice"

\* The empty option injected without "index++".
ModelDynamicChoiceController_NewInput_NoShift(withLabel, metaData, f) ==
    IF metaData.type # "DynamicChoice" THEN Panic
    ELSE LET own == metaData.value.options
             options == IF NeedsEmptyOption(own) THEN <<"">> \o own ELSE own
             input == Select(FieldInputClass(f, metaData), Selector(metaData),
                             [model |-> "IndexedStringsSelectModel",
                              Options |-> options, Index |-> metaData.value.index],
                             IsFieldDisabled(f, metaData))
         IN  IF withLabel
             THEN Return(AddStandardLabel(f, input, metaData), NoErr)
             ELSE Return(input, NoErr)

ModelDynamicChoiceController_NewInput(withLabel, metaData, f) ==
    IF metaData.type # "DynamicChoice" THEN Panic
    ELSE LET own == metaData.value.options
             inject == NeedsEmptyOption(own)
             options == IF inject THEN <<"">> \o own ELSE own
             index == IF inject THEN metaData.value.index + 1
                      ELSE metaData.value.index
             input == Select(FieldInputClass(f, metaData), Selector(metaData),
                             [model |-> "IndexedStringsSelectModel",
                              Options |-> options, Index |-> index],
                             IsFieldDisabled(f, metaData))
         IN  IF withLabel
             THEN Return(AddStandardLabel(f, input, metaData), NoErr)
             ELSE Return(input, NoErr)

---------------------------------------------------------------------------
(* ModelDateController, ModelDateTimeController *)

ModelDateController_Supports(metaData, f) == metaData.type = "Date"

ModelDateController_NewInput(withLabel, metaData, f) ==
    IF metaData.type # "Date" THEN Panic
    ELSE LET input == Views(<<HTML("(Format: " \o DateFormat \o ")<br/>"),
                              TextField(FieldInputClass(f, metaData),
                                        Selector(metaData), "NormalTextField",
                                        metaData.value, Len(DateFormat),
                                        IsFieldDisabled(f, metaData),
                                        InputFieldPlaceholder(f, metaData))>>)
         IN  IF withLabel
             THEN Return(AddStandardLabel(f, input, metaData), NoErr)
             ELSE Return(input, NoErr)

ModelDateTimeController_Supports(metaData, f) == metaData.type = "DateTime"

ModelDateTimeController_NewInput(withLabel, metaData, f) ==
    IF metaData.type # "DateTime" THEN Panic
    ELSE LET input == Views(<<HTML("(Format: " \o DateTimeFormat \o ")<br/>"),
                              TextField(FieldInputClass(f, metaData),
                                        Selector(metaData), "NormalTextField",
                                        metaData.value, Len(DateTimeFormat),
                                        IsFieldDisabled(f, metaData),
                                        InputFieldPlaceholder(f, metaData))>>)
         IN  IF withLabel
             THEN Return(AddStandardLabel(f, input, metaData), NoErr)
             ELSE Return(input, NoErr)

---------------------------------------------------------------------------
(* ModelFloatController, ModelIntController *)

ModelFloatController_Supports(metaData, f) == metaData.type = "Float"

ModelFloatController_NewInput(withLabel, metaData, f) ==
    IF metaData.type # "Float" THEN Panic
    ELSE LET input == TextField(FieldInputClass(f, metaData), Selector(metaData),
                                "NormalTextField", Itoa(metaData.value), 0,
                                IsFieldDisabled(f, metaData),
                                InputFieldPlaceholder(f, metaData))
         IN  IF withLabel
             THEN Return(AddStandardLabel(f, input, metaData), NoErr)
             ELSE Return(input, NoErr)

ModelIntController_Supports(metaData, f) == metaData.type = "Int"

ModelIntController_NewInput(withLabel, metaData, f) ==
    IF metaData.type # "Int" THEN Panic
    ELSE LET input == TextField(FieldInputClass(f, metaData), Selector(metaData),
                                "NormalTextField", Itoa(metaData.value), 0,
                                IsFieldDisabled(f, metaData),
                                InputFieldPlaceholder(f, metaData))
         IN  IF withLabel
             THEN Return(AddStandardLabel(f, input, metaData), NoErr)
             ELSE Return(input, NoErr)

---------------------------------------------------------------------------
(* ModelFileController, ModelBlobController *)

\* ctx.Request.FormFile(key): the upload of the request, or the error of
\* retrieving it. The stream it hands out is open and not yet closed.
FormFile(req, key) ==
    IF req.file.present
    THEN [err |-> NoErr, header |-> [Filename |-> req.file.Filename],
          stream |-> [opened |-> TRUE, closed |-> 0]]
    ELSE [err |-> [kind |-> "http.ErrMissingFile"], header |-> [Filename |-> ""],
          stream |-> NoStream]

\* ioutil.ReadAll(file): every byte of the payload, or the stream's read error.
ReadAll(req) ==
    IF req.file.readOk
    THEN [bytes |-> req.file.Data, err |-> NoErr]
    ELSE [bytes |-> <<>>, err |-> [kind |-> "read error"]]

\* file.Close()
Close(s) == [s EXCEPT !.closed = @ + 1]

\* defer file.Close(): runs on every return after the defer statement.
DeferredClose(s) == Close(s)

ModelFileController_Supports(metaData, f) == metaData.type = "File"

ModelFileController_NewInput(withLabel, metaData, f) ==
    LET input == FileInput(FieldInputClass(f, metaData), Selector(metaData),
                           IsFieldDisabled(f, metaData))
    IN  IF withLabel
        THEN Return(AddStandardLabel(f, input, metaData), NoErr)
        ELSE Return(input, NoErr)

\* f.Name assigned as soon as the header is there, before the payload is read.
ModelFileController_SetValue_NameFirst(req, metaData, f) ==
    IF metaData.type # "File" THEN SetPanic(metaData)
    ELSE LET ff == FormFile(req, Selector(metaData))
             rd == ReadAll(req)
             named == [metaData EXCEPT !.value.Name = ff.header.Filename]
         IN  IF ff.err # NoErr THEN SetReturn(ff.err, metaData, ff.stream)
             ELSE IF rd.err # NoErr
                  THEN SetReturn(rd.err, named, DeferredClose(ff.stream))
             ELSE SetReturn(NoErr, [named EXCEPT !.value.Data = rd.bytes],
                            DeferredClose(ff.stream))

\* file.Close() called at the end instead of deferred: a failed read leaves
\* the stream open.
ModelFileController_SetValue_CloseAtEnd(req, metaData, f) ==
    IF metaData.type # "File" THEN SetPanic(metaData)
    ELSE LET ff == FormFile(req, Selector(metaData))
             rd == ReadAll(req)
         IN  IF ff.err # NoErr THEN SetReturn(ff.err, metaData, ff.stream)
             ELSE IF rd.err # NoErr THEN SetReturn(rd.err, metaData, ff.stream)
             ELSE SetReturn(NoErr,
                            [metaData EXCEPT !.value =
                                [Name |-> ff.header.Filename, Data |-> rd.bytes]],
                            Close(ff.stream))

ModelFileController_SetValue(req, metaData, f) ==
    IF metaData.type # "File" THEN SetPanic(metaData)
    ELSE LET ff == FormFile(req, Selector(metaData))
             rd == ReadAll(req)
         IN  IF ff.err # NoErr THEN SetReturn(ff.err, metaData, ff.stream)
             ELSE IF rd.err # NoErr
                  THEN SetReturn(rd.err, metaData, DeferredClose(ff.stream))
             ELSE SetReturn(NoErr,
                            [metaData EXCEPT !.value =
                                [Name |-> ff.header.Filename, Data |-> rd.bytes]],
                            DeferredClose(ff.stream))

ModelBlobController_Supports(metaData, f) == metaData.type = "Blob"

ModelBlobController_NewInput(withLabel, metaData, f) ==
    LET input == FileInput(FieldInputClass(f, metaData), Selector(metaData),
                           IsFieldDisabled(f, metaData))
    IN  IF withLabel
        THEN Return(AddStandardLabel(f, input, metaData), NoErr)
        ELSE Return(input, NoErr)

ModelBlobController_SetValue(req, metaData, f) ==
    IF metaData.type # "Blob" THEN SetPanic(metaData)
    ELSE LET ff == FormFile(req, Selector(metaData))
             rd == ReadAll(req)
         IN  IF ff.err # NoErr THEN SetReturn(ff.err, metaData, ff.stream)
             ELSE IF rd.err # NoErr
                  THEN SetReturn(rd.err, metaData, DeferredClose(ff.stream))
             ELSE SetReturn(NoErr, [metaData EXCEPT !.value = rd.bytes],
                            DeferredClose(ff.stream))

---------------------------------------------------------------------------
(* FormFieldController: the interface, dispatched on the controller's type. A
   controller that embeds modelValueControllerBase has its SetValue. *)

CtrlSupports(c, metaData, f) ==
    CASE c = "ModelStringController" -> ModelStringController_Supports(metaData, f)
      [] c = "ModelTextController" -> ModelTextController_Supports(metaData, f)
      [] c = "ModelUrlController" -> ModelUrlController_Supports(metaData, f)
      [] c = "ModelEmailController" -> ModelEmailController_Supports(metaData, f)
      [] c = "ModelPasswordController" -> ModelPasswordController_Supports(metaData, f)
      [] c = "ModelPhoneController" -> ModelPhoneController_Supports(metaData, f)
      [] c = "ModelBoolController" -> ModelBoolController_Supports(metaData, f)
      [] c = "ModelChoiceController" -> ModelChoiceController_Supports(metaData, f)
      [] c = "ModelMultipleChoiceController" -> ModelMultipleChoiceController_Supports(metaData, f)
      [] c = "ModelDynamicChoiceController" -> ModelDynamicChoiceController_Supports(metaData, f)
      [] c = "ModelDateController" -> ModelDateController_Supports(metaData, f)
      [] c = "ModelDateTimeController" -> ModelDateTimeController_Supports(metaData, f)
      [] c = "ModelFloatController" -> ModelFloatController_Supports(metaData, f)
      [] c = "ModelIntController" -> ModelIntController_Supports(metaData, f)
      [] c = "ModelFileController" -> ModelFileController_Supports(metaData, f)
      [] c = "ModelBlobController" -> ModelBlobController_Supports(metaData, f)

CtrlNewInput(c, withLabel, metaData, f) ==
    CASE c = "ModelStringController" -> ModelStringController_NewInput(withLabel, metaData, f)
      [] c = "ModelTextController" -> ModelTextController_NewInput(withLabel, metaData, f)
      [] c = "ModelUrlController" -> ModelUrlController_NewInput(withLabel, metaData, f)
      [] c = "ModelEmailController" -> ModelEmailController_NewInput(withLabel, metaData, f)
      [] c = "ModelPasswordController" -> ModelPasswordController_NewInput(withLabel, metaData, f)
      [] c = "ModelPhoneController" -> ModelPhoneController_NewInput(withLabel, metaData, f)
      [] c = "ModelBoolController" -> ModelBoolController_NewInput(withLabel, metaData, f)
      [] c = "ModelChoiceController" -> ModelChoiceController_NewInput(withLabel, metaData, f)
      [] c = "ModelMultipleChoiceController" -> ModelMultipleChoiceController_NewInput(withLabel, metaData, f)
      [] c = "ModelDynamicChoiceController" -> ModelDynamicChoiceController_NewInput(withLabel, metaData, f)
      [] c = "ModelDateController" -> ModelDateController_NewInput(withLabel, metaData, f)
      [] c = "ModelDateTimeController" -> ModelDateTimeController_NewInput(withLabel, metaData, f)
      [] c = "ModelFloatController" -> ModelFloatController_NewInput(withLabel, metaData, f)
      [] c = "ModelIntController" -> ModelIntController_NewInput(withLabel, metaData, f)
      [] c = "ModelFileController" -> ModelFileController_NewInput(withLabel, metaData, f)
      [] c = "ModelBlobController" -> ModelBlobController_NewInput(withLabel, metaData, f)

CtrlSetValue(c, req, metaData, f) ==
    CASE c = "ModelStringController" -> modelValueControllerBase_SetValue(req, metaData, f)
      [] c = "ModelTextController" -> modelValueControllerBase_SetValue(req, metaData, f)
      [] c = "ModelUrlController" -> modelValueControllerBase_SetValue(req, metaData, f)
      [] c = "ModelEmailController" -> modelValueControllerBase_SetValue(req, metaData, f)
      [] c = "ModelPasswordController" -> modelValueControllerBase_SetValue(req, metaData, f)
      [] c = "ModelPhoneController" -> modelValueControllerBase_SetValue(req, metaData, f)
      [] c = "ModelBoolController" -> ModelBoolController_SetValue(req, metaData, f)
      [] c = "ModelChoiceController" -> modelValueControllerBase_SetValue(req, metaData, f)
      [] c = "ModelMultipleChoiceController" -> ModelMultipleChoiceController_SetValue(req, metaData, f)
      [] c = "ModelDynamicChoiceController" -> modelValueControllerBase_SetValue(req, metaData, f)
      [] c = "ModelDateController" -> modelValueControllerBase_SetValue(req, metaData, f)
      [] c = "ModelDateTimeController" -> modelValueControllerBase_SetValue(req, metaData, f)
      [] c = "ModelFloatController" -> modelValueControllerBase_SetValue(req, metaData, f)
      [] c = "ModelIntController" -> modelValueControllerBase_SetValue(req, metaData, f)
      [] c = "ModelFileController" -> ModelFileController_SetValue(req, metaData, f)
      [] c = "ModelBlobController" -> ModelBlobController_SetValue(req, metaData, f)

---------------------------------------------------------------------------
(* FormFieldControllers: the list. Each operation hands back its result and
   the controller methods it invoked, in order. *)

Invocation(self, i, method) == [index |-> i, ctrl |-> self[i], method |-> method]

FormFieldControllers_Supports(self, metaData, f) ==
    LET RECURSIVE loop(_, _)
        loop(i, log) ==
            IF i > Len(self) THEN [result |-> FALSE, invoked |-> log]
            ELSE IF CtrlSupports(self[i], metaData, f)
                 THEN [result |-> TRUE,
                       invoked |-> Append(log, Invocation(self, i, "Supports"))]
                 ELSE loop(i + 1, Append(log, Invocation(self, i, "Supports")))
    IN  loop(1, <<>>)

\* The loop without its return: every supporting controller is invoked and the
\* last one's result is returned.
FormFieldControllers_NewInput_NoReturn(self, withLabel, metaData, f) ==
    LET RECURSIVE loop(_, _, _)
        loop(i, log, res) ==
            IF i > Len(self) THEN [result |-> res, invoked |-> log]
            ELSE IF CtrlSupports(self[i], metaData, f)
                 THEN loop(i + 1,
                           log \o <<Invocation(self, i, "Supports"),
                                    Invocation(self, i, "NewInput")>>,
                           CtrlNewInput(self[i], withLabel, metaData, f))
                 ELSE loop(i + 1, Append(log, Invocation(self, i, "Supports")), res)
    IN  loop(1, <<>>, Return(Nil, ErrFormFieldTypeNotSupported(metaData)))

FormFieldControllers_NewInput(self, withLabel, metaData, f) ==
    LET RECURSIVE loop(_, _)
        loop(i, log) ==
            IF i > Len(self)
            THEN [result |-> Return(Nil, ErrFormFieldTypeNotSupported(metaData)),
                  invoked |-> log]
            ELSE IF CtrlSupports(self[i], metaData, f)
                 THEN [result |-> CtrlNewInput(self[i], withLabel, metaData, f),
                       invoked |-> log \o <<Invocation(self, i, "Supports"),
                                            Invocation(self, i, "NewInput")>>]
                 ELSE loop(i + 1, Append(log, Invocation(self, i, "Supports")))
    IN  loop(1, <<>>)

\* The list's SetValue ending in "return nil".
FormFieldControllers_SetValue_ReturnsNil(self, req, metaData, f) ==
    LET RECURSIVE loop(_, _)
        loop(i, log) ==
            IF i > Len(self)
            THEN [result |-> SetReturn(NoErr, metaData, NoStream), invoked |-> log]
            ELSE IF CtrlSupports(self[i], metaData, f)
                 THEN [result |-> CtrlSetValue(self[i], req, metaData, f),
                       invoked |-> log \o <<Invocation(self, i, "Supports"),
                                            Invocation(self, i, "SetValue")>>]
                 ELSE loop(i + 1, Append(log, Invocation(self, i, "Supports")))
    IN  loop(1, <<>>)

FormFieldControllers_SetValue(self, req, metaData, f) ==
    LET RECURSIVE loop(_, _)
        loop(i, log) ==
            IF i > Len(self)
            THEN [result |-> SetReturn(ErrFormFieldTypeNotSupported(metaData),
                                       metaData, NoStream),
                  invoked |-> log]
            ELSE IF CtrlSupports(self[i], metaData, f)
                 THEN [result |-> CtrlSetValue(self[i], req, metaData, f),
                       invoked |-> log \o <<Invocation(self, i, "Supports"),
                                            Invocation(self, i, "SetValue")>>]
                 ELSE loop(i + 1, Append(log, Invocation(self, i, "Supports")))
    IN  loop(1, <<>>)

---------------------------------------------------------------------------
(* Response.XML: the writer keeps what it wrote and the stack of open tags *)

OpenTag(w, tag) ==
    [out |-> Append(w.out, [t |-> "open", tag |-> tag]),
     tagStack |-> Append(w.tagStack, tag)]

Attrib_(w, name, value) ==
    [w EXCEPT !.out = Append(@, [t |-> "attr", name |-> name, value |-> value])]

\* Writes the attribute unless the value is the zero value of its type.
AttribIfNotDefault(w, name, value) ==
    IF value = "" THEN w ELSE Attrib_(w, name, value)

\* Closes the innermost open tag with a full close tag.
ForceCloseTag(w) ==
    [out |-> Append(w.out, [t |-> "close", tag |-> w.tagStack[Len(w.tagStack)]]),
     tagStack |-> SubSeq(w.tagStack, 1, Len(w.tagStack) - 1)]

\* A view other than a Span: it writes its content and returns its error.
Leaf_Render(self, w) ==
    [w |-> [w EXCEPT !.out = @ \o self.content], err |-> self.err]

---------------------------------------------------------------------------
(* Span *)

RECURSIVE Span_Render(_, _)
\* Content.Render(response): View is an interface.
View_Render(v, w) ==
    IF v.view = "Span" THEN Span_Render(v, w) ELSE Leaf_Render(v, w)

\* The child's error returned at once, before the close tag.
Span_Render_EarlyReturn(self, w) ==
    LET opened == AttribIfNotDefault(Attrib_(OpenTag(w, "span"), "id", self.id),
                                     "class", self.Class)
        child == IF self.Content # Nil
                 THEN View_Render(self.Content, opened)
                 ELSE [w |-> opened, err |-> NoErr]
    IN  IF child.err # NoErr THEN child
        ELSE [w |-> ForceCloseTag(child.w), err |-> NoErr]

Span_Render(self, w) ==
    LET opened == AttribIfNotDefault(Attrib_(OpenTag(w, "span"), "id", self.id),
                                     "class", self.Class)
        child == IF self.Content # Nil
                 THEN View_Render(self.Content, opened)
                 ELSE [w |-> opened, err |-> NoErr]
    IN  [w |-> ForceCloseTag(child.w), err |-> child.err]

---------------------------------------------------------------------------
(* The inputs the model draws from *)

SeqsUpTo(S, n) == UNION {[1..k -> S] : k \in 0..n}
PartialFns(K, V) == UNION {[D -> V] : D \in SUBSET K}

NoAttribs == [k \in {} |-> ""]
Numerals == {ToString(n) : n \in 0..MaxNum}
Texts == {"", "a"}
FormVals == {"", "a", "false"}
Bytes == {0, 1}
Payloads == SeqsUpTo(Bytes, MaxData)

Field(type, value, attribs, options) ==
    [type |-> type, selector |-> "f", value |-> value, attribs |-> attribs,
     options |-> options]

Forms(sizes, disabled) ==
    [class : {"input"}, size : sizes, disabled : disabled,
     placeholder : {"hint"}, label : {"Label"}]

\* One field of every model type, with the zero value of the type.
ZeroValue(type) ==
    CASE type \in {"Int", "Float"} -> 0
      [] type = "Bool" -> FALSE
      [] type \in {"MultipleChoice", "Blob"} -> <<>>
      [] type = "DynamicChoice" -> [index |-> 0, options |-> <<"a">>]
      [] type = "File" -> [Name |-> "", Data |-> <<>>]
      [] OTHER -> ""

DeclaredOptions(type) ==
    IF type \in {"Choice", "MultipleChoice"} THEN <<"a", "b">> ELSE <<>>

ZeroFields ==
    {Field(t, ZeroValue(t), NoAttribs, DeclaredOptions(t)) : t \in FieldTypes}

AnyFields ==
    ZeroFields
    \cup {Field("Text", "", [cols |-> c], <<>>) : c \in {"2", "x"}}
    \cup {Field("Text", "", [rows |-> r], <<>>) : r \in {"2", "x"}}

TextLikeTypes == {"String", "Url", "Email", "Phone", "Password"}

TextFields ==
    {Field(t, v, a, <<>>) :
        t \in TextLikeTypes, v \in {"a"},
        a \in {NoAttribs} \cup {[maxlen |-> m] : m \in Numerals \cup {"x"}}}

BoolFields == {Field("Bool", b, NoAttribs, <<>>) : b \in BOOLEAN}

OptionLists == SeqsUpTo({"", "a", "b"}, MaxOptions)

ChoiceFields ==
    {Field("Choice", v, NoAttribs, o) : v \in Texts, o \in OptionLists}
    \cup {Field("DynamicChoice", [index |-> i, options |-> o], NoAttribs, <<>>) :
            o \in OptionLists, i \in 0..(MaxOptions - 1)}

MultipleChoiceFields ==
    {Field("MultipleChoice", v, NoAttribs, o) :
        v \in SeqsUpTo({"a", "b"}, 1), o \in SeqsUpTo({"a", "b"}, MaxOptions)}

UploadFields ==
    {Field("File", v, NoAttribs, <<>>) :
        v \in {[Name |-> "", Data |-> <<>>], [Name |-> "old.txt", Data |-> <<1>>]}}
    \cup {Field("Blob", v, NoAttribs, <<>>) : v \in {<<>>, <<1>>}}

\* The requests a client submits for the form of a field: the upload for a
\* file or blob field, the indexed boxes for a multiple choice, the field's
\* own key otherwise.
NoFile == [present |-> FALSE, Filename |-> "", Data |-> <<>>, readOk |-> TRUE]
Uploads ==
    {NoFile} \cup [present : {TRUE}, Filename : {"x.png"}, Data : Payloads,
                   readOk : BOOLEAN]
Boxes(metaData) == {BoxName(metaData, i) : i \in 0..(MaxOptions - 1)}

Submissions(metaData) ==
    CASE metaData.type \in {"File", "Blob"} ->
            {[form |-> NoAttribs, file |-> u] : u \in Uploads}
      [] metaData.type = "MultipleChoice" ->
            {[form |-> b, file |-> NoFile] :
                b \in PartialFns(Boxes(metaData), {"", "on"})}
      [] OTHER ->
            {[form |-> v, file |-> NoFile] :
                v \in PartialFns({Selector(metaData)}, FormVals)}

\* For the calls through a list: the empty submission and the submissions
\* that fill every key of the field, with and without a readable upload.
ListSubmissions(metaData) ==
    {r \in Submissions(metaData) :
        /\ r.form = NoAttribs \/ \A k \in DOMAIN r.form : r.form[k] \in {"a", "on"}
        /\ r.form # NoAttribs =>
                DOMAIN r.form \in {{Selector(metaData)}, Boxes(metaData)}
        /\ r.file.present => Len(r.file.Data) = MaxData /\ r.file.Data[1] = 1}

ControllerLists == SeqsUpTo(Controllers, MaxControllers)

\* Views: a Span holds an id, a class and at most one child.
Leaves ==
    [view : {"Leaf"}, content : {<<>>, <<[t |-> "text", text |-> "x"]>>},
     err : {NoErr, [kind |-> "render error"]}]

RECURSIVE Spans(_)
Spans(depth) ==
    IF depth = 0 THEN {}
    ELSE [view : {"Span"}, id : {"", "id1"}, Class : {"", "c"},
          Content : {Nil} \cup Leaves \cup Spans(depth - 1)]

\* The response a Span is rendered to: new, or inside an open tag of its parent.
NewWriter == [out |-> <<>>, tagStack |-> <<>>]
Writers == {NewWriter, OpenTag(NewWriter, "div")}
Idle == [op |-> "idle"]
NoSpan == [view |-> "Span", id |-> "", Class |-> "", Content |-> Nil]

---------------------------------------------------------------------------
(* Actions: one call of a controller, of the list, or of Span.Render. A call
   is made when no call is in flight (call = Idle); its record stays until
   the caller has taken the result (Finish). *)

CallSupports(c) ==
    /\ call = Idle
    /\ call' = [op |-> "Supports", ctrl |-> c, metaData |-> meta,
                result |-> CtrlSupports(c, meta, form)]
    /\ UNCHANGED <<ctrls, meta, form, invoked, stream, span, response>>

CallNewInput(c, withLabel) ==
    /\ call = Idle
    /\ call' = [op |-> "NewInput", ctrl |-> c, withLabel |-> withLabel,
                metaData |-> meta,
                result |-> CtrlNewInput(c, withLabel, meta, form)]
    /\ UNCHANGED <<ctrls, meta, form, invoked, stream, span, response>>

CallSetValue(c, req) ==
    /\ call = Idle
    /\ LET r == CtrlSetValue(c, req, meta, form)
       IN  /\ call' = [op |-> "SetValue", ctrl |-> c, req |-> req,
                       metaData |-> meta, outcome |-> r.outcome, err |-> r.err]
           /\ meta' = r.meta
           /\ stream' = r.stream
    /\ UNCHANGED <<ctrls, form, invoked, span, response>>

ListSupports ==
    /\ call = Idle
    /\ LET r == FormFieldControllers_Supports(ctrls, meta, form)
       IN  /\ call' = [op |-> "List.Supports", metaData |-> meta,
                       result |-> r.result]
           /\ invoked' = r.invoked
    /\ UNCHANGED <<ctrls, meta, form, stream, span, response>>

ListNewInput(withLabel) ==
    /\ call = Idle
    /\ LET r == FormFieldControllers_NewInput(ctrls, withLabel, meta, form)
       IN  /\ call' = [op |-> "List.NewInput", withLabel |-> withLabel,
                       metaData |-> meta, result |-> r.result]
           /\ invoked' = r.invoked
    /\ UNCHANGED <<ctrls, meta, form, stream, span, response>>

ListSetValue(req) ==
    /\ call = Idle
    /\ LET r == FormFieldControllers_SetValue(ctrls, req, meta, form)
       IN  /\ call' = [op |-> "List.SetValue", req |-> req, metaData |-> meta,
                       outcome |-> r.result.outcome, err |-> r.result.err]
           /\ meta' = r.result.meta
           /\ stream' = r.result.stream
           /\ invoked' = r.invoked
    /\ UNCHANGED <<ctrls, form, span, response>>

\* The caller has the result: the next call starts with a new request.
Finish ==
    /\ call # Idle
    /\ call.op # "Span.Render"
    /\ call' = Idle
    /\ invoked' = <<>>
    /\ stream' = NoStream
    /\ UNCHANGED <<ctrls, meta, form, span, response>>

Render ==
    /\ call = Idle
    /\ LET r == Span_Render(span, response)
       IN  /\ response' = r.w
           /\ call' = [op |-> "Span.Render", before |-> response, err |-> r.err]
    /\ UNCHANGED <<ctrls, meta, form, invoked, stream, span>>

---------------------------------------------------------------------------
(* Specifications. The controllers are called directly on one field (Spec
   and the specifications of the field families), through a controller list
   (SpecList), and a Span is rendered (SpecSpan). *)

InitWith(fields, forms, lists) ==
    /\ meta \in fields
    /\ form \in forms
    /\ ctrls \in lists
    /\ span = NoSpan
    /\ response = NewWriter
    /\ call = Idle
    /\ invoked = <<>>
    /\ stream = NoStream

Next ==
    \/ \E c \in Controllers : CallSupports(c)
    \/ \E c \in Controllers, withLabel \in BOOLEAN : CallNewInput(c, withLabel)
    \/ \E c \in Controllers, req \in Submissions(meta) : CallSetValue(c, req)
    \/ Finish

Init == InitWith(AnyFields, Forms({MaxSize}, BOOLEAN), {<<>>})
Spec == Init /\ [][Next]_vars

InitText == InitWith(TextFields, Forms(0..MaxSize, BOOLEAN), {<<>>})
SpecText == InitText /\ [][Next]_vars

InitBool == InitWith(BoolFields, Forms({MaxSize}, BOOLEAN), {<<>>})
SpecBool == InitBool /\ [][Next]_vars

InitChoice == InitWith(ChoiceFields, Forms({MaxSize}, BOOLEAN), {<<>>})
SpecChoice == InitChoice /\ [][Next]_vars

InitMultipleChoice == InitWith(MultipleChoiceFields, Forms({MaxSize}, BOOLEAN), {<<>>})
SpecMultipleChoice == InitMultipleChoice /\ [][Next]_vars

InitUpload == InitWith(UploadFields, Forms({MaxSize}, BOOLEAN), {<<>>})
SpecUpload == InitUpload /\ [][Next]_vars

NextList ==
    \/ ListSupports
    \/ \E withLabel \in BOOLEAN : ListNewInput(withLabel)
    \/ \E req \in ListSubmissions(meta) : ListSetValue(req)
    \/ Finish

InitList == InitWith(ZeroFields, Forms({MaxSize}, {FALSE}), ControllerLists)
SpecList == InitList /\ [][NextList]_vars

NextSpan == Render

InitSpan ==
    /\ span \in Spans(MaxDepth)
    /\ response \in Writers
    /\ meta = Field("String", "", NoAttribs, <<>>)
    /\ form \in Forms({MaxSize}, {FALSE})
    /\ ctrls = <<>>
    /\ call = Idle
    /\ invoked = <<>>
    /\ stream = NoStream
SpecSpan == InitSpan /\ [][NextSpan]_vars

---------------------------------------------------------------------------
(* Properties *)

\* The positions of list L whose controller supports the field.
Supporting(L, metaData) == {i \in 1..Len(L) : CtrlSupports(L[i], metaData, form)}
Lowest(S) == CHOOSE i \in S : \A j \in S : i <= j

\* The positions of the log at which NewInput or SetValue was invoked.
Delegations == {k \in 1..Len(invoked) : invoked[k].method \in {"NewInput", "SetValue"}}

\* The text field of a returned input, with or without its label.
Unlabeled(input) == IF input.view = "Labeled" THEN input.Input ELSE input

ErrNotSupported == "ErrFormFieldTypeNotSupported"

\* C1: the list's NewInput and SetValue invoke NewInput or SetValue of exactly
\* one controller, the one at the lowest index whose Supports is true, invoke
\* nothing at a higher index, and return exactly what that controller returns.
C1_FirstMatchDispatch ==
    (call.op \in {"List.NewInput", "List.SetValue"}
        /\ Supporting(ctrls, call.metaData) # {}) =>
    LET i == Lowest(Supporting(ctrls, call.metaData))
    IN  /\ Cardinality(Delegations) = 1
        /\ \A k \in 1..Len(invoked) : invoked[k].index <= i
        /\ \A k \in Delegations :
            /\ invoked[k].index = i
            /\ invoked[k].ctrl = ctrls[i]
            /\ invoked[k].method =
                 (IF call.op = "List.NewInput" THEN "NewInput" ELSE "SetValue")
        /\ call.op = "List.NewInput" =>
            call.result = CtrlNewInput(ctrls[i], call.withLabel, call.metaData, form)
        /\ call.op = "List.SetValue" =>
            LET r == CtrlSetValue(ctrls[i], call.req, call.metaData, form)
            IN  /\ call.outcome = r.outcome
                /\ call.err = r.err
                /\ meta = r.meta
                /\ stream = r.stream

\* C1 witness: a list of two controllers that both support the field, and
\* the list's NewInput has delegated to the first.
C1_Witness ==
    /\ call.op = "List.NewInput"
    /\ Supporting(ctrls, call.metaData) = {1, 2}
    /\ Len(invoked) = 2
    /\ invoked[2].method = "NewInput"
    /\ invoked[2].index = 1

\* C2: when no controller of the list supports the field (the empty list
\* included), Supports is false, NewInput returns a nil view with
\* ErrFormFieldTypeNotSupported carrying the field's descriptor, SetValue
\* returns that error and leaves the field as it was; and when the list's
\* Supports is true, neither operation returns the unsupported-type error.
C2_UnsupportedByList ==
    /\ (call.op = "List.Supports" /\ Supporting(ctrls, call.metaData) = {}) =>
            call.result = FALSE
    /\ (call.op = "List.NewInput" /\ Supporting(ctrls, call.metaData) = {}) =>
            /\ call.result.outcome = "return"
            /\ call.result.input = Nil
            /\ call.result.err = ErrFormFieldTypeNotSupported(call.metaData)
    /\ (call.op = "List.SetValue" /\ Supporting(ctrls, call.metaData) = {}) =>
            /\ call.outcome = "return"
            /\ call.err = ErrFormFieldTypeNotSupported(call.metaData)
            /\ meta = call.metaData
    /\ (call.op = "List.NewInput"
            /\ FormFieldControllers_Supports(ctrls, call.metaData, form).result) =>
            call.result.err.kind # ErrNotSupported
    /\ (call.op = "List.SetValue"
            /\ FormFieldControllers_Supports(ctrls, call.metaData, form).result) =>
            call.err.kind # ErrNotSupported

\* C2 witness: SetValue on a non-empty list none of whose controllers supports
\* the field has returned the unsupported-type error for that field.
C2_Witness ==
    /\ call.op = "List.SetValue"
    /\ Len(ctrls) > 0
    /\ Supporting(ctrls, call.metaData) = {}
    /\ call.req.form # NoAttribs
    /\ call.err = ErrFormFieldTypeNotSupported(meta)

\* C3: a field of each of the sixteen supported model types is supported by
\* exactly one of the sixteen controllers, and a field of any other type by
\* none.
C3_ExactlyOneController ==
    /\ Cardinality(Controllers) = Cardinality(SupportedTypes)
    /\ LET claiming == {c \in Controllers : CtrlSupports(c, meta, form)}
       IN  IF meta.type \in SupportedTypes
           THEN Cardinality(claiming) = 1
           ELSE claiming = {}
    /\ (call.op = "Supports" /\ call.result) =>
        /\ call.metaData.type \in SupportedTypes
        /\ \A c \in Controllers \ {call.ctrl} :
                ~CtrlSupports(c, call.metaData, form)

\* C3 witness: a controller has been asked about a Url field and supports it.
C3_Witness ==
    /\ call.op = "Supports"
    /\ call.metaData.type = "Url"
    /\ call.result = TRUE

\* C4: NewInput or SetValue of a controller called with a field the controller
\* does not support returns ErrFormFieldTypeNotSupported as an error value,
\* and NewInput fails in no other way.
C4_UnsupportedDirectCall ==
    /\ (call.op = "NewInput" /\ ~CtrlSupports(call.ctrl, call.metaData, form)) =>
            /\ call.result.outcome = "return"
            /\ call.result.err = ErrFormFieldTypeNotSupported(call.metaData)
    /\ (call.op = "SetValue" /\ ~CtrlSupports(call.ctrl, call.metaData, form)) =>
            /\ call.outcome = "return"
            /\ call.err = ErrFormFieldTypeNotSupported(call.metaData)
    /\ (call.op = "NewInput" /\ CtrlSupports(call.ctrl, call.metaData, form)) =>
            /\ call.result.outcome = "return"
            /\ call.result.err = NoErr

\* The max length a field declares: its "maxlen" tag attribute, a numeral.
DeclaresMaxlen(metaData) ==
    "maxlen" \in DOMAIN metaData.attribs /\ metaData.attribs["maxlen"] \in Numerals
DeclaredMaxlen(metaData) ==
    CHOOSE n \in 0..MaxNum : ToString(n) = metaData.attribs["maxlen"]
Min(a, b) == IF a <= b THEN a ELSE b

\* NewInput of the controller of a text-like field has returned.
TextInputBuilt ==
    /\ call.op = "NewInput"
    /\ call.metaData.type \in TextLikeTypes
    /\ CtrlSupports(call.ctrl, call.metaData, form)

\* C5 as stated: for every text-like field (string, URL, email, phone,
\* password) that declares a max length m, NewInput produces a text field
\* with MaxLength m and Size min(requested size, m); with no max length
\* declared, Size is the requested size and MaxLength its default.
C5_Original_ClampEveryTextLike ==
    TextInputBuilt =>
        LET textField == Unlabeled(call.result.input)
        IN  IF DeclaresMaxlen(call.metaData)
            THEN /\ textField.MaxLength = DeclaredMaxlen(call.metaData)
                 /\ textField.Size = Min(form.size, DeclaredMaxlen(call.metaData))
            ELSE /\ textField.MaxLength = 0
                 /\ textField.Size = form.size

\* C5 amended: for a String or Password field that declares a max length m,
\* NewInput produces a text field with MaxLength m and Size min(requested
\* size, m); for a Url, Email or Phone field, and for any text-like field
\* that declares no max length, Size is the requested size and MaxLength
\* stays at its default.
C5_ClampStringAndPassword ==
    TextInputBuilt =>
        LET textField == Unlabeled(call.result.input)
        IN  /\ call.result.outcome = "return"
            /\ call.result.err = NoErr
            /\ textField.view = "TextField"
            /\ IF call.metaData.type \in {"String", "Password"}
                    /\ DeclaresMaxlen(call.metaData)
               THEN /\ textField.MaxLength = DeclaredMaxlen(call.metaData)
                    /\ textField.Size = Min(form.size, DeclaredMaxlen(call.metaData))
               ELSE /\ textField.MaxLength = 0
                    /\ textField.Size = form.size

\* C5 witness: a String field that declares max length 1 was rendered with
\* requested size 2, and the text field has Size 1.
C5_Witness ==
    /\ TextInputBuilt
    /\ call.metaData.type = "String"
    /\ DeclaresMaxlen(call.metaData)
    /\ DeclaredMaxlen(call.metaData) = 1
    /\ form.size = 2
    /\ Unlabeled(call.result.input).Size = 1
    /\ Unlabeled(call.result.input).MaxLength = 1

\* C6: ModelBoolController.SetValue sets the field to true iff the submitted
\* value under the field's selector is non-empty ("false" included) and to
\* false when the key is absent or empty, whatever the field held before;
\* and the checkbox NewInput renders has Checked equal to the field's value.
C6_BoolFromPresence ==
    /\ (call.op = "SetValue" /\ call.ctrl = "ModelBoolController"
            /\ call.metaData.type = "Bool") =>
        /\ call.outcome = "return"
        /\ call.err = NoErr
        /\ meta.value =
             (Selector(meta) \in DOMAIN call.req.form
                /\ call.req.form[Selector(meta)] # "")
        /\ meta = [call.metaData EXCEPT !.value = meta.value]
    /\ (call.op = "NewInput" /\ call.ctrl = "ModelBoolController"
            /\ call.metaData.type = "Bool") =>
        /\ call.result.outcome = "return"
        /\ call.result.input.view = "Checkbox"
        /\ call.result.input.Checked = meta.value

\* C6 witness: a field that was false was bound from a submission whose
\* value is "false", and is now true.
C6_Witness ==
    /\ call.op = "SetValue"
    /\ call.ctrl = "ModelBoolController"
    /\ call.metaData.type = "Bool"
    /\ call.metaData.value = FALSE
    /\ FormValue(call.req, Selector(meta)) = "false"
    /\ meta.value = TRUE

\* The 1-based positions of the options whose box is non-empty in req, and
\* the options at those positions in option-list order.
CheckedBoxes(metaData, req) ==
    {i \in 1..Len(metaData.options) :
        /\ BoxName(metaData, i - 1) \in DOMAIN req.form
        /\ req.form[BoxName(metaData, i - 1)] # ""}
CheckedOptions(metaData, req) ==
    LET idx == CheckedBoxes(metaData, req)
        nth(k) == CHOOSE i \in idx : Cardinality({j \in idx : j < i}) = k - 1
    IN  [k \in 1..Cardinality(idx) |-> metaData.options[nth(k)]]

\* C7: after every ModelMultipleChoiceController.SetValue the field holds
\* exactly the options, in option-list order, whose box <selector>_<i> is
\* non-empty in that submission, whatever it held before the call.
C7_RebuiltFromScratch ==
    (call.op = "SetValue" /\ call.ctrl = "ModelMultipleChoiceController"
        /\ call.metaData.type = "MultipleChoice") =>
        /\ call.outcome = "return"
        /\ call.err = NoErr
        /\ meta.value = CheckedOptions(call.metaData, call.req)
        /\ meta = [call.metaData EXCEPT !.value = meta.value]

\* C7 witness: a field holding "a" was bound from a submission that checks
\* only the box of "b", and now holds "b" alone.
C7_Witness ==
    /\ call.op = "SetValue"
    /\ call.ctrl = "ModelMultipleChoiceController"
    /\ call.metaData.type = "MultipleChoice"
    /\ call.metaData.options = <<"a", "b">>
    /\ call.metaData.value = <<"a">>
    /\ CheckedBoxes(call.metaData, call.req) = {2}
    /\ meta.value = <<"b">>

\* The option list with the empty option first.
StartsWithEmpty(options) == Len(options) > 0 /\ options[1] = ""
WithEmptyOption(options) ==
    IF StartsWithEmpty(options) THEN options ELSE <<"">> \o options

\* C8: the option list NewInput renders for a Choice or DynamicChoice field
\* starts with the empty option: it is the field's list when that starts
\* with "", and the list with "" prepended otherwise. For a DynamicChoice
\* the rendered index is the field's index plus one exactly when the empty
\* option is injected, so that the rendered option at the rendered index is
\* the field's option at its index; the field itself is not modified.
C8_EmptyOptionFirst ==
    /\ (call.op = "NewInput" /\ call.ctrl = "ModelChoiceController"
            /\ call.metaData.type = "Choice") =>
        LET model == Unlabeled(call.result.input).Model
        IN  /\ model.Options[1] = ""
            /\ model.Options = WithEmptyOption(call.metaData.options)
            /\ model.SelectedOption = call.metaData.value
            /\ meta = call.metaData
    /\ (call.op = "NewInput" /\ call.ctrl = "ModelDynamicChoiceController"
            /\ call.metaData.type = "DynamicChoice") =>
        LET model == Unlabeled(call.result.input).Model
            own == call.metaData.value
        IN  /\ model.Options[1] = ""
            /\ model.Options = WithEmptyOption(own.options)
            /\ model.Index =
                 (IF StartsWithEmpty(own.options) THEN own.index ELSE own.index + 1)
            /\ own.index < Len(own.options) =>
                 model.Options[model.Index + 1] = own.options[own.index + 1]
            /\ meta = call.metaData

\* C8 witness: a DynamicChoice with options "a", "b" and index 0 was rendered
\* with options "", "a", "b" and index 1.
C8_Witness ==
    /\ call.op = "NewInput"
    /\ call.ctrl = "ModelDynamicChoiceController"
    /\ call.metaData.type = "DynamicChoice"
    /\ call.metaData.value = [index |-> 0, options |-> <<"a", "b">>]
    /\ Unlabeled(call.result.input).Model.Options = <<"", "a", "b">>
    /\ Unlabeled(call.result.input).Model.Index = 1

\* SetValue of the File or Blob controller on a field of its own type.
UploadBound ==
    /\ call.op = "SetValue"
    /\ \/ call.ctrl = "ModelFileController" /\ call.metaData.type = "File"
       \/ call.ctrl = "ModelBlobController" /\ call.metaData.type = "Blob"

\* C9: ModelFileController.SetValue, given an upload with filename n whose
\* payload is read successfully, stores n as the name and the payload as the
\* data; and whenever SetValue of the File or Blob controller obtained the
\* upload stream, read or not, the stream has been closed exactly once when
\* SetValue returns.
C9_StoredAndClosed ==
    UploadBound =>
        /\ call.outcome = "return"
        /\ (call.ctrl = "ModelFileController"
                /\ call.req.file.present /\ call.req.file.readOk) =>
            /\ call.err = NoErr
            /\ meta.value.Name = call.req.file.Filename
            /\ meta.value.Data = call.req.file.Data
            /\ Len(meta.value.Data) = Len(call.req.file.Data)
        /\ call.req.file.present => (stream.opened /\ stream.closed = 1)
        /\ ~call.req.file.present => (~stream.opened /\ stream.closed = 0)

\* C9 witness: the File controller obtained a stream whose read failed, and
\* the stream is closed once.
C9_Witness ==
    /\ UploadBound
    /\ call.ctrl = "ModelFileController"
    /\ call.req.file.present
    /\ ~call.req.file.readOk
    /\ call.err # NoErr
    /\ stream.closed = 1

\* The attributes of a Span's open tag, and the writer once the open tag and
\* the attributes are written.
SpanAttribs(v) ==
    <<[t |-> "attr", name |-> "id", value |-> v.id]>>
    \o (IF v.Class # "" THEN <<[t |-> "attr", name |-> "class", value |-> v.Class]>>
        ELSE <<>>)
SpanOpened(v, w) ==
    [out |-> w.out \o <<[t |-> "open", tag |-> "span"]>> \o SpanAttribs(v),
     tagStack |-> Append(w.tagStack, "span")]

\* The tags of a token sequence that are open at its end; <<"!">> when a close
\* tag does not match the innermost open tag.
RECURSIVE OpenAtEnd(_, _, _)
OpenAtEnd(tokens, k, stack) ==
    IF k > Len(tokens) THEN stack
    ELSE IF tokens[k].t = "open"
         THEN OpenAtEnd(tokens, k + 1, Append(stack, tokens[k].tag))
    ELSE IF tokens[k].t = "close"
         THEN IF Len(stack) > 0 /\ stack[Len(stack)] = tokens[k].tag
              THEN OpenAtEnd(tokens, k + 1, SubSeq(stack, 1, Len(stack) - 1))
              ELSE <<"!">>
    ELSE OpenAtEnd(tokens, k + 1, stack)

\* C10: Span.Render writes the open tag with its attributes, then the
\* child's output if there is a child, then the close tag, also when the
\* child's Render returns an error; what it writes is a balanced tag pair;
\* it returns exactly the child's error, nil without a child; and the class
\* attribute is written only when Class is not empty.
C10_BalancedSpan ==
    call.op = "Span.Render" =>
        LET opened == SpanOpened(span, call.before)
            child == IF span.Content # Nil THEN View_Render(span.Content, opened)
                     ELSE [w |-> opened, err |-> NoErr]
            written == SubSeq(response.out, Len(call.before.out) + 1,
                              Len(response.out))
        IN  /\ response.out = child.w.out \o <<[t |-> "close", tag |-> "span"]>>
            /\ SubSeq(response.out, 1, Len(opened.out)) = opened.out
            /\ call.err = child.err
            /\ response.tagStack = call.before.tagStack
            /\ OpenAtEnd(written, 1, <<>>) = <<>>
            /\ written[1] = [t |-> "open", tag |-> "span"]
            /\ (\E k \in 1..Len(opened.out) :
                    k > Len(call.before.out) /\ opened.out[k].t = "attr"
                        /\ opened.out[k].name = "class")
                <=> span.Class # ""

\* C10 witness: a Span with class "c" whose child wrote text and failed was
\* rendered inside an open tag; the close tag was written and the child's
\* error returned.
C10_Witness ==
    /\ call.op = "Span.Render"
    /\ span.Class = "c"
    /\ span.Content # Nil
    /\ span.Content.view = "Leaf"
    /\ span.Content.err # NoErr
    /\ Len(span.Content.content) = 1
    /\ call.before.tagStack = <<"div">>
    /\ call.err = span.Content.err
    /\ response.out[Len(response.out)] = [t |-> "close", tag |-> "span"]

\* C11: when SetValue of the File or Blob controller fails, because the
\* upload cannot be retrieved or because reading the stream fails, it returns
\* that error as it got it and leaves the field as it was before the call:
\* neither the name nor the data of a File, nor the contents of a Blob, is
\* updated.
C11_FailureLeavesField ==
    UploadBound =>
        /\ ~call.req.file.present =>
            /\ call.err # NoErr
            /\ call.err = FormFile(call.req, Selector(call.metaData)).err
            /\ meta = call.metaData
        /\ (call.req.file.present /\ ~call.req.file.readOk) =>
            /\ call.err # NoErr
            /\ call.err = ReadAll(call.req).err
            /\ meta = call.metaData
        /\ call.err # NoErr => meta = call.metaData
        /\ call.err = NoErr => (call.req.file.present /\ call.req.file.readOk)

\* C11 witness: a File field holding "old.txt" was bound from an upload named
\* "x.png" whose read failed; the read error came back and the field still
\* holds "old.txt" and its data.
C11_Witness ==
    /\ UploadBound
    /\ call.ctrl = "ModelFileController"
    /\ call.req.file.present
    /\ ~call.req.file.readOk
    /\ call.req.file.Filename = "x.png"
    /\ call.metaData.value = [Name |-> "old.txt", Data |-> <<1>>]
    /\ call.err = [kind |-> "read error"]
    /\ meta.value = [Name |-> "old.txt", Data |-> <<1>>]

=============================================================================
